---- MODULE Spec2Model ----
(***************************************************************************)
(* Car-sales voice agent (src/main.py): the file-backed Scheduling Store   *)
(* (busy_slots.csv, bookings.csv) and the per-turn memory enrichment       *)
(* callback _enrich_with_memory.                                           *)
(*                                                                         *)
(* Spec      : every store function runs to completion before the next     *)
(*             one starts (the functions are synchronous, so inside one    *)
(*             event loop a call is never interleaved with another).       *)
(* SpecConc  : several job processes of the worker share the two CSV files *)
(*             in the working directory; each file-system access of a      *)
(*             store function is one step and steps of different           *)
(*             processes interleave freely (the code takes no lock).       *)
(* SpecEnrich: the conversation turns of one session and the before-LLM    *)
(*             callback.                                                   *)
(***************************************************************************)
EXTENDS Naturals, Sequences, FiniteSets, TLC

VARIABLES
    slotsFile,      \* busy_slots.csv: [exists, rows]; the header line is implicit
    bookingsFile,   \* bookings.csv:   [exists, rows]; the header line is implicit
    last,           \* the store call that completed last (arguments, outcome)
    pc,             \* SpecConc: per process, the position inside its store call
    loc,            \* SpecConc: per process, the call's arguments and locals
    done,           \* SpecConc: per process, the call it completed last
    ncalls,         \* SpecConc: number of calls started so far
    chat_ctx,       \* SpecEnrich: chat_ctx.messages
    phase,          \* SpecEnrich: where the current turn stands
    mem_calls,      \* SpecEnrich: the requests issued to the memory service, in order
    turn            \* SpecEnrich: the last run of the enrichment callback

storeVars  == <<slotsFile, bookingsFile, last>>
concVars   == <<pc, loc, done, ncalls>>
enrichVars == <<chat_ctx, phase, mem_calls, turn>>
vars       == <<slotsFile, bookingsFile, last, pc, loc, done, ncalls,
                chat_ctx, phase, mem_calls, turn>>

(***************************************************************************)
(* Bounds and input sets                                                   *)
(***************************************************************************)
MaxLog == 2          \* a booking is only started while the log has fewer rows
MaxTime == 1         \* datetime.now() is drawn from 1..MaxTime
NumProcs == 2        \* SpecConc: job processes sharing the CSV files
MaxCalls == 3        \* SpecConc: store calls started in one behaviour
MaxCtx == 5          \* SpecEnrich: a user turn starts while the context is shorter
MaxResults == 2      \* SpecEnrich: results one memory search returns at most

Dates  == {"2023-08-15", "2023-08-17"}
Times  == {"10:00", "09:30"}
Names  == {"Jane", "Bob"}
Phones == {"555-0100"}
Timestamps == 1..MaxTime
Procs == 1..NumProcs
Utterances == {"I want an SUV", "Call me Sam"}
Memories == {"likes SUVs", "I want an SUV"}
Replies == {"Sure."}

(***************************************************************************)
(* Scheduling Store: the pieces of the four store functions                *)
(***************************************************************************)
NoFile == [exists |-> FALSE, rows |-> <<>>]

Slot(d, t, a) == [date |-> d, time |-> t, available |-> a]

\* The five rows read_available_slots writes when busy_slots.csv is absent.
SampleSlots ==
    << Slot("2023-08-15", "10:00", "True"),
       Slot("2023-08-15", "14:00", "True"),
       Slot("2023-08-16", "11:00", "True"),
       Slot("2023-08-16", "15:30", "True"),
       Slot("2023-08-17", "09:30", "True") >>

\* str.lower() on the values the available column takes.
Lower(s) == CASE s = "True"  -> "true"
              [] s = "False" -> "false"
              [] OTHER       -> s

\* The rows whose available column lower-cases to flag, as {date, time} dicts.
RECURSIVE PickSlots(_, _)
PickSlots(rows, flag) ==
    IF rows = <<>> THEN <<>>
    ELSE LET r == Head(rows)
             rest == PickSlots(Tail(rows), flag)
         IN IF Lower(r.available) = flag
            THEN <<[date |-> r.date, time |-> r.time]>> \o rest
            ELSE rest

\* read_available_slots: the file as the 'w' write of the sample data leaves it.
SampleFile == [exists |-> TRUE, rows |-> SampleSlots]

\* Mutant: the existence test is dropped and the sample data written on every read.
SeedAlways(f) == SampleFile

\* read_available_slots, first half: create the file with sample data if absent.
SeedIfAbsent(f) == IF ~f.exists THEN SampleFile ELSE f

\* read_available_slots, second half: the rows whose available column reads true.
AvailableOf(f) == PickSlots(f.rows, "true")

\* read_busy_slots: empty when the file is absent, else the rows reading false.
BusyOf(f) == IF f.exists THEN PickSlots(f.rows, "false") ELSE <<>>

Matches(r, d, t) == r.date = d /\ r.time = t

\* Mutant: a missing file is first filled with the sample data, as
\* read_available_slots does.
AddBusyRowsSeedsWhenAbsent(f, d, t) ==
    LET read == IF f.exists THEN f.rows ELSE SampleSlots
        marked == [i \in 1..Len(read) |->
                     IF Matches(read[i], d, t)
                     THEN [read[i] EXCEPT !.available = "False"]
                     ELSE read[i]]
        exists == \E i \in 1..Len(read) : Matches(read[i], d, t)
    IN IF exists THEN marked ELSE Append(marked, Slot(d, t, "False"))

\* Mutant: the exists flag is never set, so the busy row is always appended.
AddBusyRowsAlwaysAppend(f, d, t) ==
    Append(IF f.exists THEN f.rows ELSE <<>>, Slot(d, t, "False"))

\* add_busy_slot, the read loop and the append: the rows it is about to write.
AddBusyRows(f, d, t) ==
    LET read == IF f.exists THEN f.rows ELSE <<>>
        marked == [i \in 1..Len(read) |->
                     IF Matches(read[i], d, t)
                     THEN [read[i] EXCEPT !.available = "False"]
                     ELSE read[i]]
        exists == \E i \in 1..Len(read) : Matches(read[i], d, t)
    IN IF exists THEN marked ELSE Append(marked, Slot(d, t, "False"))

\* Mutant: slot_exists is never set, so an available slot is flipped and a busy
\* row for it appended as well.
BookScanAlwaysAppend(rows, d, t) ==
    LET flip(i) == Matches(rows[i], d, t) /\ Lower(rows[i].available) = "true"
        marked == [i \in 1..Len(rows) |->
                     IF flip(i) THEN [rows[i] EXCEPT !.available = "False"]
                     ELSE rows[i]]
    IN [slots   |-> Append(marked, Slot(d, t, "False")),
        updated |-> TRUE]

\* Mutant: the availability test is dropped, a matching row always counts as updated.
BookScanNoAvailabilityTest(rows, d, t) ==
    LET hit(i) == Matches(rows[i], d, t)
        marked == [i \in 1..Len(rows) |->
                     IF hit(i) THEN [rows[i] EXCEPT !.available = "False"] ELSE rows[i]]
        slot_exists == \E i \in 1..Len(rows) : hit(i)
    IN [slots   |-> IF slot_exists THEN marked ELSE Append(marked, Slot(d, t, "False")),
        updated |-> TRUE]

\* book_appointment, the read loop and the append over the rows of an existing
\* slot file: the rows it would write and whether anything was updated.
BookScan(rows, d, t) ==
    LET hit(i) == Matches(rows[i], d, t)
        flip(i) == hit(i) /\ Lower(rows[i].available) = "true"
        marked == [i \in 1..Len(rows) |->
                     IF flip(i) THEN [rows[i] EXCEPT !.available = "False"]
                     ELSE rows[i]]
        slot_exists == \E i \in 1..Len(rows) : hit(i)
    IN [slots   |-> IF slot_exists THEN marked ELSE Append(marked, Slot(d, t, "False")),
        updated |-> (\E i \in 1..Len(rows) : flip(i)) \/ ~slot_exists]

\* book_appointment, first lines: create bookings.csv with its header if absent.
CreateLogIfAbsent(b) == IF ~b.exists THEN [exists |-> TRUE, rows |-> <<>>] ELSE b

\* book_appointment: booking_exists, i.e. the log has more lines than its header.
BookingExists(b) == b.exists /\ 1 + Len(b.rows) > 1

Booking(n, p, d, t, ts) ==
    [name |-> n, phone |-> p, date |-> d, time |-> t, booked_at |-> ts]

\* Mutant: the log is opened with 'w' on every booking.
WriteBookingAlwaysRewrite(b, booking_exists, row) == [exists |-> TRUE, rows |-> <<row>>]

\* book_appointment, the final write: rewrite header and row, or append the row.
WriteBooking(b, booking_exists, row) ==
    IF ~booking_exists
    THEN [exists |-> TRUE, rows |-> <<row>>]
    ELSE [exists |-> TRUE, rows |-> Append(b.rows, row)]

(***************************************************************************)
(* Spec: each store function as one atomic call                            *)
(***************************************************************************)
NoCall == [op |-> "none", name |-> "", phone |-> "", date |-> "", time |-> "",
           result |-> "", ret |-> <<>>, repeat |-> FALSE, created |-> FALSE,
           raised |-> FALSE, reply |-> ""]

\* The "- <date> at <time>" lines of get_available_slots and get_busy_slots.
RECURSIVE FormatSlots(_)
FormatSlots(slots) ==
    IF slots = <<>> THEN ""
    ELSE "- " \o Head(slots).date \o " at " \o Head(slots).time \o "\n"
         \o FormatSlots(Tail(slots))

\* The CarSalesAssistant actions call the store function without try/except:
\* an exception of the store function leaves the action as that exception.
ToolRaises(res) == res \notin {"ok", "True", "False"}

\* The text a CarSalesAssistant action returns for what its store function returned.
ToolReply(op, n, d, t, res, ret) ==
    CASE op = "read_available_slots" ->
            IF ret = <<>> THEN "There are currently no available appointment slots."
            ELSE "Available appointment slots:\n" \o FormatSlots(ret)
      [] op = "read_busy_slots" ->
            IF ret = <<>> THEN "There are currently no busy appointment slots."
            ELSE "Busy appointment slots:\n" \o FormatSlots(ret)
      [] op = "book_appointment" ->
            IF res = "True"
            THEN "Appointment successfully booked for " \o n \o " on " \o d
                 \o " at " \o t \o "."
            ELSE "Sorry, that slot is no longer available. Please choose another time."
      [] op = "add_busy_slot" ->
            IF res = "True"
            THEN "Successfully added busy slot on " \o d \o " at " \o t \o "."
            ELSE "Failed to add busy slot. Please try again."
      [] OTHER -> ""

\* The record of a completed call: repeat says that the call before it was the
\* same function with the same arguments, created that this call found no
\* busy_slots.csv and left one behind, raised and reply are what the
\* CarSalesAssistant action around the call ended with.
Call(op, n, p, d, t, res, ret) ==
    [op |-> op, name |-> n, phone |-> p, date |-> d, time |-> t,
     result |-> res, ret |-> ret,
     raised |-> ToolRaises(res),
     reply |-> IF ToolRaises(res) THEN "" ELSE ToolReply(op, n, d, t, res, ret),
     repeat |-> (last.op = op /\ last.name = n /\ last.phone = p
                 /\ last.date = d /\ last.time = t),
     created |-> (~slotsFile.exists /\ op \in {"read_available_slots", "add_busy_slot"})]

read_available_slots ==
    /\ slotsFile' = SeedIfAbsent(slotsFile)
    /\ last' = Call("read_available_slots", "", "", "", "", "ok",
                    AvailableOf(SeedIfAbsent(slotsFile)))
    /\ UNCHANGED bookingsFile

read_busy_slots ==
    /\ last' = Call("read_busy_slots", "", "", "", "", "ok", BusyOf(slotsFile))
    /\ UNCHANGED <<slotsFile, bookingsFile>>

add_busy_slot(d, t) ==
    /\ slotsFile' = [exists |-> TRUE, rows |-> AddBusyRows(slotsFile, d, t)]
    /\ last' = Call("add_busy_slot", "", "", d, t, "True", <<>>)
    /\ UNCHANGED bookingsFile

book_appointment(n, p, d, t, ts) ==
    LET log == CreateLogIfAbsent(bookingsFile)
        scan == BookScan(slotsFile.rows, d, t)
    IN
    /\ Len(bookingsFile.rows) < MaxLog
    /\ IF ~slotsFile.exists
       THEN \* open(SLOTS_CSV_PATH, 'r') raises FileNotFoundError
            /\ bookingsFile' = log
            /\ UNCHANGED slotsFile
            /\ last' = Call("book_appointment", n, p, d, t, "FileNotFoundError", <<>>)
       ELSE IF ~scan.updated
       THEN /\ bookingsFile' = log
            /\ UNCHANGED slotsFile
            /\ last' = Call("book_appointment", n, p, d, t, "False", <<>>)
       ELSE /\ slotsFile' = [exists |-> TRUE, rows |-> scan.slots]
            /\ bookingsFile' = WriteBooking(log, BookingExists(log), Booking(n, p, d, t, ts))
            /\ last' = Call("book_appointment", n, p, d, t, "True", <<>>)

ReadAvailable == read_available_slots /\ UNCHANGED concVars /\ UNCHANGED enrichVars
ReadBusy == read_busy_slots /\ UNCHANGED concVars /\ UNCHANGED enrichVars
AddBusy ==
    \E d \in Dates, t \in Times :
        add_busy_slot(d, t) /\ UNCHANGED concVars /\ UNCHANGED enrichVars
Book ==
    \E n \in Names, p \in Phones, d \in Dates, t \in Times, ts \in Timestamps :
        book_appointment(n, p, d, t, ts) /\ UNCHANGED concVars /\ UNCHANGED enrichVars

Next == ReadAvailable \/ ReadBusy \/ AddBusy \/ Book


(***************************************************************************)
(* SpecConc: the same functions, one step per file-system access           *)
(***************************************************************************)
NoLocals == [op |-> "none", name |-> "", phone |-> "", date |-> "", time |-> "",
             slots |-> <<>>, booking_exists |-> FALSE, start |-> 0, free |-> FALSE]
NoneDone == [op |-> "none", name |-> "", phone |-> "", date |-> "", time |-> "",
             result |-> "", ret |-> <<>>, start |-> 0, end |-> 0, free |-> FALSE]

\* The slot file exists and (d, t) is available in it or has no record.
SlotFree(f, d, t) ==
    /\ f.exists
    /\ \A i \in 1..Len(f.rows) :
          Matches(f.rows[i], d, t) => Lower(f.rows[i].available) = "true"

Begin(p, op, n, ph, d, t, slots) ==
    /\ pc[p] = "idle"
    /\ ncalls < MaxCalls
    /\ ncalls' = ncalls + 1
    /\ loc' = [loc EXCEPT ![p] = [NoLocals EXCEPT !.op = op, !.name = n, !.phone = ph,
                                     !.date = d, !.time = t, !.start = ncalls + 1,
                                     !.free = SlotFree(slotsFile, d, t),
                                     !.slots = slots]]

Return(p, res, ret) ==
    /\ done' = [done EXCEPT ![p] =
                  [op |-> loc[p].op, name |-> loc[p].name, phone |-> loc[p].phone,
                   date |-> loc[p].date, time |-> loc[p].time, result |-> res,
                   ret |-> ret, start |-> loc[p].start, end |-> ncalls,
                   free |-> loc[p].free]]
    /\ pc' = [pc EXCEPT ![p] = "idle"]

\* read_available_slots: os.path.exists(SLOTS_CSV_PATH)
AvailCheck(p) ==
    /\ Begin(p, "read_available_slots", "", "", "", "", <<>>)
    /\ pc' = [pc EXCEPT ![p] = IF slotsFile.exists THEN "avail_read" ELSE "avail_seed"]
    /\ UNCHANGED <<slotsFile, bookingsFile, done>>

\* read_available_slots: open(SLOTS_CSV_PATH, 'w') and the six writerow calls
AvailSeed(p) ==
    /\ pc[p] = "avail_seed"
    /\ slotsFile' = SampleFile
    /\ pc' = [pc EXCEPT ![p] = "avail_read"]
    /\ UNCHANGED <<bookingsFile, loc, done, ncalls>>

\* read_available_slots: open(SLOTS_CSV_PATH, 'r'), the filter, return
AvailRead(p) ==
    /\ pc[p] = "avail_read"
    /\ Return(p, "ok", AvailableOf(slotsFile))
    /\ UNCHANGED <<slotsFile, bookingsFile, loc, ncalls>>

\* read_busy_slots: the existence test and the read
BusyRead(p) ==
    /\ Begin(p, "read_busy_slots", "", "", "", "", <<>>)
    /\ done' = [done EXCEPT ![p] =
                  [NoneDone EXCEPT !.op = "read_busy_slots", !.result = "ok",
                                   !.ret = BusyOf(slotsFile),
                                   !.start = ncalls + 1, !.end = ncalls + 1]]
    /\ UNCHANGED <<slotsFile, bookingsFile, pc>>

\* add_busy_slot: the existence test, the read loop and the append to slots
AddRead(p, d, t) ==
    /\ Begin(p, "add_busy_slot", "", "", d, t, AddBusyRows(slotsFile, d, t))
    /\ pc' = [pc EXCEPT ![p] = "add_write"]
    /\ UNCHANGED <<slotsFile, bookingsFile, done>>

\* add_busy_slot: open(SLOTS_CSV_PATH, 'w'), the rows, return True
AddWrite(p) ==
    /\ pc[p] = "add_write"
    /\ slotsFile' = [exists |-> TRUE, rows |-> loc[p].slots]
    /\ Return(p, "True", <<>>)
    /\ UNCHANGED <<bookingsFile, loc, ncalls>>

\* book_appointment: os.path.exists(BOOKINGS_CSV_PATH)
BookCheckLog(p, n, ph, d, t) ==
    /\ Len(bookingsFile.rows) < MaxLog
    /\ Begin(p, "book_appointment", n, ph, d, t, <<>>)
    /\ pc' = [pc EXCEPT ![p] = IF bookingsFile.exists THEN "book_read" ELSE "book_create"]
    /\ UNCHANGED <<slotsFile, bookingsFile, done>>

\* book_appointment: open(BOOKINGS_CSV_PATH, 'w') and the header
BookCreateLog(p) ==
    /\ pc[p] = "book_create"
    /\ bookingsFile' = CreateLogIfAbsent(NoFile)
    /\ pc' = [pc EXCEPT ![p] = "book_read"]
    /\ UNCHANGED <<slotsFile, loc, done, ncalls>>

\* book_appointment: open(SLOTS_CSV_PATH, 'r'), the read loop, the append to
\* slots and the test of updated
BookReadSlots(p) ==
    /\ pc[p] = "book_read"
    /\ UNCHANGED <<slotsFile, bookingsFile, ncalls>>
    /\ IF ~slotsFile.exists
       THEN Return(p, "FileNotFoundError", <<>>) /\ UNCHANGED loc
       ELSE LET scan == BookScan(slotsFile.rows, loc[p].date, loc[p].time)
            IN IF ~scan.updated
               THEN Return(p, "False", <<>>) /\ UNCHANGED loc
               ELSE /\ loc' = [loc EXCEPT ![p].slots = scan.slots]
                    /\ pc' = [pc EXCEPT ![p] = "book_write"]
                    /\ UNCHANGED done

\* book_appointment: open(SLOTS_CSV_PATH, 'w') and the rows
BookWriteSlots(p) ==
    /\ pc[p] = "book_write"
    /\ slotsFile' = [exists |-> TRUE, rows |-> loc[p].slots]
    /\ pc' = [pc EXCEPT ![p] = "book_logread"]
    /\ UNCHANGED <<bookingsFile, loc, done, ncalls>>

\* book_appointment: the line count of bookings.csv
BookReadLog(p) ==
    /\ pc[p] = "book_logread"
    /\ loc' = [loc EXCEPT ![p].booking_exists = BookingExists(bookingsFile)]
    /\ pc' = [pc EXCEPT ![p] = "book_logwrite"]
    /\ UNCHANGED <<slotsFile, bookingsFile, done, ncalls>>

\* book_appointment: the 'w' or 'a' write of the booking row, return True
BookWriteLog(p, ts) ==
    /\ pc[p] = "book_logwrite"
    /\ bookingsFile' = WriteBooking(bookingsFile, loc[p].booking_exists,
                                    Booking(loc[p].name, loc[p].phone, loc[p].date,
                                            loc[p].time, ts))
    /\ Return(p, "True", <<>>)
    /\ UNCHANGED <<slotsFile, loc, ncalls>>

ProcAvailCheck == \E p \in Procs : AvailCheck(p) /\ UNCHANGED <<last, enrichVars>>
ProcAvailSeed == \E p \in Procs : AvailSeed(p) /\ UNCHANGED <<last, enrichVars>>
ProcAvailRead == \E p \in Procs : AvailRead(p) /\ UNCHANGED <<last, enrichVars>>
ProcBusyRead == \E p \in Procs : BusyRead(p) /\ UNCHANGED <<last, enrichVars>>
ProcAddRead ==
    \E p \in Procs, d \in Dates, t \in Times :
        AddRead(p, d, t) /\ UNCHANGED <<last, enrichVars>>
ProcAddWrite == \E p \in Procs : AddWrite(p) /\ UNCHANGED <<last, enrichVars>>
ProcBookCheckLog ==
    \E p \in Procs, n \in Names, ph \in Phones, d \in Dates, t \in Times :
        BookCheckLog(p, n, ph, d, t) /\ UNCHANGED <<last, enrichVars>>
ProcBookCreateLog == \E p \in Procs : BookCreateLog(p) /\ UNCHANGED <<last, enrichVars>>
ProcBookReadSlots == \E p \in Procs : BookReadSlots(p) /\ UNCHANGED <<last, enrichVars>>
ProcBookWriteSlots == \E p \in Procs : BookWriteSlots(p) /\ UNCHANGED <<last, enrichVars>>
ProcBookReadLog == \E p \in Procs : BookReadLog(p) /\ UNCHANGED <<last, enrichVars>>
ProcBookWriteLog ==
    \E p \in Procs, ts \in Timestamps :
        BookWriteLog(p, ts) /\ UNCHANGED <<last, enrichVars>>

NextConc ==
    \/ ProcAvailCheck \/ ProcAvailSeed \/ ProcAvailRead \/ ProcBusyRead
    \/ ProcAddRead \/ ProcAddWrite
    \/ ProcBookCheckLog \/ ProcBookCreateLog \/ ProcBookReadSlots
    \/ ProcBookWriteSlots \/ ProcBookReadLog \/ ProcBookWriteLog


(***************************************************************************)
(* SpecEnrich: the conversation turns and the before-LLM callback          *)
(***************************************************************************)
USER_ID == "alice"

Message(role, content) == [role |-> role, content |-> content]

\* initial_ctx: the context the agent is created with holds the system prompt.
InitialCtx == << Message("system", "You are a car sales cold caller named Alex") >>

\* The lists a memory search can return: up to MaxResults records {memory: text}.
RECURSIVE ResultLists(_)
ResultLists(n) ==
    IF n = 0 THEN { <<>> }
    ELSE ResultLists(n - 1) \cup
         { Append(r, [memory |-> m]) : r \in {x \in ResultLists(n - 1) : Len(x) = n - 1},
                                       m \in Memories }

\* Mutant: the memories are concatenated without the separating space.
RECURSIVE JoinNoSeparator(_)
JoinNoSeparator(results) ==
    IF results = <<>> THEN ""
    ELSE Head(results).memory \o JoinNoSeparator(Tail(results))

\* ' '.join([result["memory"] for result in results])
RECURSIVE JoinMemories(_)
JoinMemories(results) ==
    IF results = <<>> THEN ""
    ELSE IF Len(results) = 1 THEN results[1].memory
    ELSE results[1].memory \o " " \o JoinMemories(Tail(results))

\* llm.ChatMessage.create(text=f"Relevant Memory: {memories}\n", role="assistant")
RagMessage(results) ==
    Message("assistant", "Relevant Memory: " \o JoinMemories(results) \o "\n")

\* Mutant: the memory message is appended after the user message.
AppendAfterUser(messages, rag_msg) == Append(messages, rag_msg)

\* chat_ctx.messages[-1] = rag_msg; chat_ctx.messages.append(user_msg)
InsertBeforeLast(messages, rag_msg) ==
    LET user_msg == messages[Len(messages)]
    IN Append([messages EXCEPT ![Len(messages)] = rag_msg], user_msg)

AddRequest(content) ==
    [op |-> "add", messages |-> << Message("user", content) >>, query |-> "",
     user_id |-> USER_ID]
SearchRequest(content) ==
    [op |-> "search", messages |-> <<>>, query |-> content, user_id |-> USER_ID]

\* Mutant: the search is awaited before the add.
RequestsSearchFirst(content, add_ok) ==
    IF add_ok THEN << SearchRequest(content), AddRequest(content) >>
    ELSE << SearchRequest(content) >>

\* The requests one run issues, in program order: mem0.add is awaited first, and
\* mem0.search is issued only if the add did not raise.
Requests(content, add_ok) ==
    IF add_ok THEN << AddRequest(content), SearchRequest(content) >>
    ELSE << AddRequest(content) >>

NoTurn == [ran |-> FALSE, pre |-> <<>>, add_ok |-> FALSE, search_ok |-> FALSE,
           results |-> <<>>, raised |-> FALSE, requests |-> <<>>]

\* The runtime appends the transcribed user utterance and is about to call
\* before_llm_cb.
UserTurn(text) ==
    /\ phase \in {"idle", "aborted"}
    /\ Len(chat_ctx) < MaxCtx
    /\ chat_ctx' = Append(chat_ctx, Message("user", text))
    /\ phase' = "before_llm"
    /\ UNCHANGED <<mem_calls, turn>>

\* _enrich_with_memory(agent, chat_ctx): add_ok and search_ok say whether the
\* awaited mem0 call returned or raised, results is what the search returned.
EnrichWithMemory(add_ok, search_ok, results) ==
    /\ phase = "before_llm"
    /\ IF chat_ctx = <<>>
       THEN /\ UNCHANGED <<chat_ctx, mem_calls>>
            /\ turn' = [NoTurn EXCEPT !.ran = TRUE]
            /\ phase' = "llm"
       ELSE LET user_msg == chat_ctx[Len(chat_ctx)]
                issued == Requests(user_msg.content, add_ok)
                raised == ~add_ok \/ ~search_ok
            IN /\ mem_calls' = mem_calls \o issued
               /\ turn' = [ran |-> TRUE, pre |-> chat_ctx, add_ok |-> add_ok,
                           search_ok |-> add_ok /\ search_ok,
                           results |-> IF raised THEN <<>> ELSE results,
                           raised |-> raised, requests |-> issued]
               /\ chat_ctx' = IF ~raised /\ results # <<>>
                              THEN InsertBeforeLast(chat_ctx, RagMessage(results))
                              ELSE chat_ctx
               /\ phase' = IF raised THEN "aborted" ELSE "llm"

\* The language model answers on the context the callback left.
LLMReply(text) ==
    /\ phase = "llm"
    /\ chat_ctx' = Append(chat_ctx, Message("assistant", text))
    /\ phase' = "idle"
    /\ UNCHANGED <<mem_calls, turn>>

User == \E text \in Utterances : UserTurn(text) /\ UNCHANGED <<storeVars, concVars>>
EnrichOk ==
    \E results \in ResultLists(MaxResults) :
        EnrichWithMemory(TRUE, TRUE, results) /\ UNCHANGED <<storeVars, concVars>>
EnrichAddFails ==
    EnrichWithMemory(FALSE, FALSE, <<>>) /\ UNCHANGED <<storeVars, concVars>>
EnrichSearchFails ==
    EnrichWithMemory(TRUE, FALSE, <<>>) /\ UNCHANGED <<storeVars, concVars>>
Reply == \E text \in Replies : LLMReply(text) /\ UNCHANGED <<storeVars, concVars>>

NextEnrich == User \/ EnrichOk \/ EnrichAddFails \/ EnrichSearchFails \/ Reply

Init ==
    /\ slotsFile = NoFile
    /\ bookingsFile = NoFile
    /\ last = NoCall
    /\ pc = [p \in Procs |-> "idle"]
    /\ loc = [p \in Procs |-> NoLocals]
    /\ done = [p \in Procs |-> NoneDone]
    /\ ncalls = 0
    /\ chat_ctx = InitialCtx
    /\ phase = "idle"
    /\ mem_calls = <<>>
    /\ turn = NoTurn

Spec == Init /\ [][Next]_vars

SpecConc == Init /\ [][NextConc]_vars

SpecEnrich == Init /\ [][NextEnrich]_vars

(***************************************************************************)
(* Vocabulary of the claims                                                *)
(***************************************************************************)
Key(d, t) == [date |-> d, time |-> t]
InSeq(x, s) == \E i \in 1..Len(s) : s[i] = x

\* The store services listAvailable() and listBusy() as a caller would see them
\* in the state whose slot file is f.
ListAvailable(f) == AvailableOf(SeedIfAbsent(f))
ListBusy(f) == BusyOf(f)

HasRecord(f, d, t) == f.exists /\ \E i \in 1..Len(f.rows) : Matches(f.rows[i], d, t)
RecordIs(f, d, t, a) ==
    f.exists /\ \E i \in 1..Len(f.rows) : Matches(f.rows[i], d, t) /\ f.rows[i].available = a
RowsFor(b, d, t) == {i \in 1..Len(b.rows) : b.rows[i].date = d /\ b.rows[i].time = t}

DefaultSlots ==
    << Key("2023-08-15", "10:00"), Key("2023-08-15", "14:00"), Key("2023-08-16", "11:00"),
       Key("2023-08-16", "15:30"), Key("2023-08-17", "09:30") >>

(***************************************************************************)
(* C1: of N >= 2 overlapping book_appointment calls for the same           *)
(* (date, time), started while the slot was available or had no record,    *)
(* exactly one returns True, the other N-1 return False, and the booking   *)
(* log holds exactly one row for that (date, time).  (Stated for calls     *)
(* that start on a store whose busy_slots.csv exists; without the file see *)
(* C6.)                                                                    *)
(***************************************************************************)
Overlap(p, q) == done[p].start <= done[q].end /\ done[q].start <= done[p].end

SameSlotBookings(S) ==
    /\ Cardinality(S) >= 2
    /\ \A p \in S : done[p].op = "book_appointment" /\ done[p].free
    /\ \A p, q \in S : /\ done[p].date = done[q].date
                       /\ done[p].time = done[q].time
                       /\ Overlap(p, q)

C1_ExactlyOneBookingWins ==
    \A S \in SUBSET Procs :
        SameSlotBookings(S) =>
            /\ Cardinality({p \in S : done[p].result = "True"}) = 1
            /\ Cardinality({p \in S : done[p].result = "False"}) = Cardinality(S) - 1
            /\ \A p \in S :
                  Cardinality(RowsFor(bookingsFile, done[p].date, done[p].time)) = 1

(***************************************************************************)
(* C2: a booking of a slot that has a record and is busy returns False     *)
(* (conflict) and changes neither the slot file nor the rows of the        *)
(* booking log, so the log keeps at most the one row it had for that slot. *)
(* (The call may create bookings.csv holding only its header: the log then *)
(* still has no row.)                                                      *)
(***************************************************************************)
C2_BusyConflictNoMutation ==
    [][ (last'.op = "book_appointment"
         /\ RecordIs(slotsFile, last'.date, last'.time, "False"))
        => /\ last'.result = "False"
           /\ slotsFile' = slotsFile
           /\ bookingsFile'.rows = bookingsFile.rows
           /\ Cardinality(RowsFor(bookingsFile', last'.date, last'.time)) <= 1 ]_vars

\* Jane holds the slot's only booking row and Bob's later call was refused.
C2_Witness ==
    /\ last.op = "book_appointment" /\ last.result = "False" /\ last.name = "Bob"
    /\ last.date = "2023-08-15" /\ last.time = "10:00"
    /\ Cardinality(RowsFor(bookingsFile, last.date, last.time)) = 1
    /\ \A i \in RowsFor(bookingsFile, last.date, last.time) : bookingsFile.rows[i].name = "Jane"

(***************************************************************************)
(* C3: when book_appointment(n, p, d, t) returns True, listBusy() then     *)
(* includes (d, t), listAvailable() does not, and the booking log is the   *)
(* log before the call with the row (n, p, d, t, timestamp) added at its   *)
(* end.                                                                    *)
(***************************************************************************)
C3_BookRoundTrip ==
    [][ (last'.op = "book_appointment" /\ last'.result = "True")
        => LET k == Key(last'.date, last'.time)
               rows == bookingsFile'.rows
               n == Len(rows)
           IN /\ InSeq(k, ListBusy(slotsFile'))
              /\ ~InSeq(k, ListAvailable(slotsFile'))
              /\ n = Len(bookingsFile.rows) + 1
              /\ SubSeq(rows, 1, n - 1) = bookingsFile.rows
              /\ rows[n].name = last'.name /\ rows[n].phone = last'.phone
              /\ rows[n].date = last'.date /\ rows[n].time = last'.time
              /\ rows[n].booked_at \in Timestamps ]_vars

\* A successful booking made when the log already held a row.
C3_Witness ==
    /\ last.op = "book_appointment" /\ last.result = "True"
    /\ Len(bookingsFile.rows) = 2
    /\ bookingsFile.rows[2].name = last.name
    /\ InSeq(Key(last.date, last.time), ListBusy(slotsFile))

(***************************************************************************)
(* C4: add_busy_slot(date, time) returns True from every store state and   *)
(* leaves the slot busy (an available record flipped in place, an unknown  *)
(* slot appended busy, a busy record untouched), never touches the booking *)
(* log, and a second call right after the first changes nothing.           *)
(***************************************************************************)
C4_MarkBusyIdempotent ==
    [][ (last'.op = "add_busy_slot")
        => LET d == last'.date
               t == last'.time
               old == slotsFile.rows
               new == slotsFile'.rows
           IN /\ last'.result = "True"
              /\ RecordIs(slotsFile', d, t, "False")
              /\ bookingsFile' = bookingsFile
              /\ last'.repeat => slotsFile' = slotsFile
              /\ RecordIs(slotsFile, d, t, "False") => slotsFile' = slotsFile
              /\ RecordIs(slotsFile, d, t, "True") =>
                    /\ Len(new) = Len(old)
                    /\ \A i \in 1..Len(old) :
                          new[i] = IF Matches(old[i], d, t) THEN Slot(d, t, "False") ELSE old[i]
              /\ ~HasRecord(slotsFile, d, t) => new = Append(old, Slot(d, t, "False")) ]_vars

\* The second of two add_busy_slot calls in succession with the same arguments.
C4_Witness ==
    /\ last.op = "add_busy_slot" /\ last.repeat
    /\ RecordIs(slotsFile, last.date, last.time, "False")

(***************************************************************************)
(* C5: read_available_slots on a store without busy_slots.csv returns the  *)
(* five default slots in order, all available; once the file exists it     *)
(* stays, and a later read_available_slots leaves it as it found it.       *)
(***************************************************************************)
C5_BootstrapSeedsOnce ==
    [][ /\ (last'.op = "read_available_slots" /\ ~slotsFile.exists)
            => /\ last'.ret = DefaultSlots
               /\ Len(slotsFile'.rows) = 5
               /\ \A i \in 1..5 : slotsFile'.rows[i].available = "True"
        /\ (last'.op = "read_available_slots" /\ slotsFile.exists)
            => slotsFile' = slotsFile
        /\ slotsFile.exists => slotsFile'.exists ]_vars

\* The first read of a fresh store: it created the file and returned five slots.
C5_Witness ==
    /\ last.op = "read_available_slots" /\ last.created
    /\ last.ret = DefaultSlots

(***************************************************************************)
(* C6: book_appointment and add_busy_slot for a (date, time) without a     *)
(* slot record, from every store state including one whose busy_slots.csv  *)
(* was never created, return True and leave the slot busy.                 *)
(***************************************************************************)
C6_UnknownSlotSucceeds ==
    [][ (last'.op \in {"book_appointment", "add_busy_slot"}
         /\ ~HasRecord(slotsFile, last'.date, last'.time))
        => /\ last'.result = "True"
           /\ RecordIs(slotsFile', last'.date, last'.time, "False") ]_vars

(***************************************************************************)
(* C7: a run of _enrich_with_memory on a non-empty context C ending in the *)
(* user utterance u leaves C unchanged when the search returns nothing,    *)
(* and otherwise leaves C without u, then one inserted entry, then u: one  *)
(* entry longer, every earlier entry in place, u last.                     *)
(***************************************************************************)
C7_EnrichInsertsBeforeUtterance ==
    [][ (phase = "before_llm" /\ phase' = "llm" /\ chat_ctx # <<>>)
        => LET n == Len(chat_ctx)
               u == chat_ctx[n]
           IN IF turn'.results = <<>>
              THEN chat_ctx' = chat_ctx
              ELSE /\ Len(chat_ctx') = n + 1
                   /\ \A i \in 1..(n - 1) : chat_ctx'[i] = chat_ctx[i]
                   /\ chat_ctx'[n + 1] = u
                   /\ chat_ctx'[n].role = "assistant"
                   /\ chat_ctx'[n] # u ]_vars

\* A later turn was enriched: the context handed in held at least three entries
\* in front of the utterance and is now one entry longer, the utterance last.
C7_Witness ==
    /\ phase = "llm" /\ turn.ran /\ turn.results # <<>>
    /\ Len(turn.pre) >= 4
    /\ Len(chat_ctx) = Len(turn.pre) + 1
    /\ chat_ctx[Len(chat_ctx)] = turn.pre[Len(turn.pre)]

\* The memories of a result list joined by single spaces, written out by length.
ExpectedJoin(r) ==
    CASE Len(r) = 1 -> r[1].memory
      [] Len(r) = 2 -> r[1].memory \o " " \o r[2].memory
      [] Len(r) = 3 -> r[1].memory \o " " \o r[2].memory \o " " \o r[3].memory
      [] OTHER -> ""

InsertedEntry == chat_ctx[Len(chat_ctx) - 1]
Enriched == phase = "llm" /\ turn.ran /\ turn.results # <<>>

(***************************************************************************)
(* C8 as stated: the inserted entry has role "memory" and its text is the  *)
(* result texts joined by single spaces.                                   *)
(***************************************************************************)
C8_EntryIsBareMemoryText ==
    Enriched => InsertedEntry = Message("memory", ExpectedJoin(turn.results))

(***************************************************************************)
(* C8 amended: the inserted entry has role "assistant" and its text is     *)
(* "Relevant Memory: ", then every result text in the order returned,      *)
(* joined by single spaces with none filtered out, then a newline; for the *)
(* single result "likes SUVs" it is "Relevant Memory: likes SUVs\n".       *)
(***************************************************************************)
C8_EntryIsPrefixedMemoryText ==
    Enriched =>
        /\ Len(turn.results) <= 3
        /\ InsertedEntry.role = "assistant"
        /\ InsertedEntry.content
              = "Relevant Memory: " \o ExpectedJoin(turn.results) \o "\n"
        /\ turn.results = << [memory |-> "likes SUVs"] >>
              => InsertedEntry = Message("assistant", "Relevant Memory: likes SUVs\n")

\* Two results, the second equal to the utterance that was just added.
C8_Witness ==
    /\ Enriched
    /\ turn.results = << [memory |-> "likes SUVs"], [memory |-> "I want an SUV"] >>
    /\ turn.pre[Len(turn.pre)].content = "I want an SUV"
    /\ InsertedEntry.content = "Relevant Memory: likes SUVs I want an SUV\n"

(***************************************************************************)
(* C9: every search request is directly preceded by the add request of the *)
(* same text under the same user_id, and every run on a non-empty context  *)
(* issues the add of the last entry's text first.                          *)
(***************************************************************************)
C9_AddBeforeSearch ==
    /\ \A i \in 1..Len(mem_calls) :
          mem_calls[i].op = "search" =>
              /\ i > 1
              /\ mem_calls[i - 1].op = "add"
              /\ mem_calls[i - 1].messages = << Message("user", mem_calls[i].query) >>
              /\ mem_calls[i - 1].user_id = mem_calls[i].user_id
    /\ (turn.ran /\ turn.pre # <<>>) =>
          /\ Len(turn.requests) >= 1
          /\ turn.requests[1].op = "add"
          /\ turn.requests[1].messages
                = << Message("user", turn.pre[Len(turn.pre)].content) >>
          /\ \A i \in 1..Len(turn.requests) :
                /\ turn.requests[i].user_id = turn.requests[1].user_id
                /\ turn.requests[i].op = "search"
                      => turn.requests[i].query = turn.pre[Len(turn.pre)].content

\* Two turns have each issued their add and then their search.
C9_Witness ==
    /\ Len(mem_calls) = 4
    /\ mem_calls[3].op = "add" /\ mem_calls[4].op = "search"
    /\ mem_calls[4].query = "Call me Sam"

(***************************************************************************)
(* C10: when mem0.add or mem0.search fails during a turn, the callback     *)
(* does not raise, the turn goes on to the language model and the context  *)
(* is the one that was handed in.                                          *)
(***************************************************************************)
C10_MemoryFailureSwallowed ==
    (turn.ran /\ turn.pre # <<>> /\ ~(turn.add_ok /\ turn.search_ok)
       /\ phase # "before_llm")
    => /\ ~turn.raised
       /\ phase \in {"llm", "idle"}
       /\ \A i \in 1..Len(turn.pre) : chat_ctx[i] = turn.pre[i]

(***************************************************************************)
(* C11: a store call that finds busy_slots.csv or bookings.csv missing or  *)
(* unusable ends in a failure result that is neither success nor conflict, *)
(* and the CarSalesAssistant action around it returns a failure text to    *)
(* the model instead of raising.                                           *)
(***************************************************************************)
C11_StorageFailureBecomesText ==
    (last.op # "none" /\ last.result \notin {"ok", "True", "False"})
    => /\ ~last.raised
       /\ last.reply # ""
       /\ last.reply \notin { ToolReply(last.op, last.name, last.date, last.time, "True", <<>>) }

Count(x, seq) == Cardinality({i \in 1..Len(seq) : seq[i] = x})

(***************************************************************************)
(* C12: in every state reached by a sequence of store calls, each          *)
(* (date, time) with a slot record has exactly one record and appears      *)
(* exactly once in listAvailable() and listBusy() taken together, and the  *)
(* two lists hold nothing but slots that have a record.                    *)
(***************************************************************************)
C12_OneRecordOneList ==
    LET f == SeedIfAbsent(slotsFile)
        avail == ListAvailable(slotsFile)
        busy == ListBusy(f)
    IN /\ \A i \in 1..Len(f.rows) :
             LET d == f.rows[i].date
                 t == f.rows[i].time
             IN /\ Cardinality({j \in 1..Len(f.rows) : Matches(f.rows[j], d, t)}) = 1
                /\ Count(Key(d, t), avail) + Count(Key(d, t), busy) = 1
       /\ \A i \in 1..Len(avail) : HasRecord(f, avail[i].date, avail[i].time)
       /\ \A i \in 1..Len(busy) : HasRecord(f, busy[i].date, busy[i].time)

\* The seeded store after two unknown slots were added and a default one booked.
C12_Witness ==
    /\ slotsFile.exists /\ Len(slotsFile.rows) = 7
    /\ Len(ListAvailable(slotsFile)) = 4
    /\ Len(ListBusy(slotsFile)) = 3
    /\ Len(bookingsFile.rows) >= 1

IsPrefix(a, b) == Len(a) <= Len(b) /\ \A i \in 1..Len(a) : b[i] = a[i]

(***************************************************************************)
(* C13: the booking log is append-only under every sequence and            *)
(* interleaving of store calls: each step leaves every row of the log in   *)
(* place with its field values and at most adds rows at the end.           *)
(***************************************************************************)
C13_LogAppendOnly ==
    [][ IsPrefix(bookingsFile.rows, bookingsFile'.rows) ]_vars

(***************************************************************************)
(* C14: the read-check-write of add_busy_slot and book_appointment is      *)
(* atomic with respect to the other mutator calls, so no update is lost:   *)
(* a slot that a completed mutator call created or turned busy keeps its   *)
(* busy record across every write of busy_slots.csv by a mutator call.     *)
(***************************************************************************)
MutatorWrites ==
    \E p \in Procs : pc[p] \in {"add_write", "book_write"} /\ pc'[p] # pc[p]

C14_NoLostUpdate ==
    [][ MutatorWrites =>
          \A q \in Procs :
              (/\ done[q].op \in {"add_busy_slot", "book_appointment"}
               /\ done[q].result = "True"
               /\ RecordIs(slotsFile, done[q].date, done[q].time, "False"))
              => RecordIs(slotsFile', done[q].date, done[q].time, "False") ]_vars

(***************************************************************************)
(* C15: in every reachable state each row of the booking log refers to a   *)
(* (date, time) whose slot record exists in busy_slots.csv and is busy.    *)
(***************************************************************************)
C15_BookedSlotsAreBusy ==
    \A i \in 1..Len(bookingsFile.rows) :
        RecordIs(slotsFile, bookingsFile.rows[i].date, bookingsFile.rows[i].time, "False")

(***************************************************************************)
(* C16: the sample slots are written only by read_available_slots and only *)
(* when busy_slots.csv is absent at that call.  add_busy_slot on a store   *)
(* without the file creates it holding only the slot it was given; a file  *)
(* that offers no available slot never offers one later, so every later    *)
(* read_available_slots returns none of the five default slots.            *)
(* read_busy_slots on a store without the file returns the empty list and  *)
(* does not create it.                                                     *)
(***************************************************************************)
C16_SeedOnlyByReadAvailable ==
    [][ /\ (~slotsFile.exists /\ last'.op = "add_busy_slot")
            => slotsFile' = [exists |-> TRUE,
                             rows |-> << Slot(last'.date, last'.time, "False") >>]
        /\ (~slotsFile.exists /\ last'.op = "read_busy_slots")
            => last'.ret = <<>> /\ ~slotsFile'.exists
        /\ (~slotsFile.exists /\ slotsFile'.exists /\ last'.op # "read_available_slots")
            => \A i \in 1..Len(DefaultSlots) :
                  ~InSeq(DefaultSlots[i], ListAvailable(slotsFile'))
        /\ (slotsFile.exists /\ ListAvailable(slotsFile) = <<>>)
            => /\ ListAvailable(slotsFile') = <<>>
               /\ last'.op = "read_available_slots" => last'.ret = <<>>
        /\ (slotsFile.exists /\ last'.op = "read_available_slots")
            => last'.ret = AvailableOf(slotsFile) ]_vars

\* add_busy_slot created the store with one default slot, busy, and a later
\* read_available_slots returned nothing.
C16_Witness ==
    /\ last.op = "read_available_slots" /\ ~last.created
    /\ last.ret = <<>>
    /\ slotsFile.exists
    /\ slotsFile.rows[1] = Slot("2023-08-15", "10:00", "False")
    /\ \A i \in 1..Len(slotsFile.rows) : slotsFile.rows[i].available = "False"

====
